---- MODULE Spec2Model ----
(***************************************************************************)
(* Outfit / pose history state machine of the portrait studio's App        *)
(* component (src/App.tsx).  The React state cells are the variables; each *)
(* event handler is one action; an `await` of a generation call splits a   *)
(* handler into the part that runs when the handler is invoked and the     *)
(* continuation that runs when the call resolves or rejects.  A            *)
(* continuation sees the values its closure captured at invocation         *)
(* (currentOutfitIndex, currentPoseIndex, outfitHistory) and the latest    *)
(* state only through functional updaters (prev => ...).                   *)
(***************************************************************************)
EXTENDS Integers, Sequences, FiniteSets, TLC

\* ---------------------------------------------------------------- bounds
\* number of entries of POSE_INSTRUCTIONS the model distinguishes
NumPoses == 3
\* number of generation calls issued in one behaviour
MaxCalls == 2

\* ------------------------------------------------------------- constants
\* null for the string-valued cells (error, garment)
Null == "null"
\* images are numbers: generation call number n produces image n; null and
\* undefined image references are the two negative values
NullUrl == 0 - 1
UndefinedUrl == 0 - 2
\* garment ids the wardrobe panel can hand to handleGarmentSelect
GarmentIds == {"g1", "g2"}
\* the image handed over by the start screen
BaseImages == {0}
defaultWardrobe == <<"g1">>

PoseIndices == 0 .. (NumPoses - 1)
\* POSE_INSTRUCTIONS[i]: the catalogue is injective, a key is named by its index
POSE_INSTRUCTIONS(i) == i

NoError == Null
ApplyError == "Failed to apply style"
PoseError == "Failed to change pose"
AdjustError == "Failed to adjust image"
RegenError == "Failed to regenerate portrait"

VARIABLES modelImageUrl, outfitHistory, currentOutfitIndex, isLoading,
          loadingMessage, error, currentPoseIndex, wardrobe,
          pending, issued, crashed, lastOp, linear, undoSnap,
          response, apiResult

appVars == <<modelImageUrl, outfitHistory, currentOutfitIndex, isLoading,
             loadingMessage, error, currentPoseIndex, wardrobe>>
vars == <<modelImageUrl, outfitHistory, currentOutfitIndex, isLoading,
          loadingMessage, error, currentPoseIndex, wardrobe,
          pending, issued, crashed, lastOp, linear, undoSnap,
          response, apiResult>>
apiVars == <<response, apiResult>>

\* ------------------------------------------------- poseImages (JS object)
\* an object with string keys: a sequence of entries in insertion order
PoseHas(poseImages, key) == \E i \in 1 .. Len(poseImages) : poseImages[i].key = key

PoseGet(poseImages, key) ==
    IF PoseHas(poseImages, key)
    THEN poseImages[CHOOSE i \in 1 .. Len(poseImages) : poseImages[i].key = key].img
    ELSE UndefinedUrl

\* poseImages[key] = img : overwrite keeps the entry's position, a new key goes last
PoseSet(poseImages, key, img) ==
    IF PoseHas(poseImages, key)
    THEN [i \in 1 .. Len(poseImages) |->
            IF poseImages[i].key = key THEN [key |-> key, img |-> img] ELSE poseImages[i]]
    ELSE Append(poseImages, [key |-> key, img |-> img])

\* Object.values(poseImages)[0]
FirstValue(poseImages) == IF Len(poseImages) = 0 THEN UndefinedUrl ELSE poseImages[1].img

\* ------------------------------------------------------- history helpers
HasLayer(h, i) == i >= 0 /\ i < Len(h)
LayerAt(h, i) == h[i + 1]

Slice_noTruncate(h, n) == h

\* Array.prototype.slice(0, n)
Slice(h, n) == SubSeq(h, 1, IF n < Len(h) THEN (IF n < 0 THEN 0 ELSE n) ELSE Len(h))

\* ---------------------------------------------------------- derived views
activeGarmentIds_wholeHistory ==
    LET ids == [i \in 1 .. Len(outfitHistory) |-> outfitHistory[i].garment]
    IN  SelectSeq(ids, LAMBDA id : id # Null)

\* outfitHistory.slice(0, currentOutfitIndex + 1).map(layer => layer.garment?.id).filter(Boolean)
activeGarmentIds ==
    LET upTo == Slice(outfitHistory, currentOutfitIndex + 1)
        ids == [i \in 1 .. Len(upTo) |-> upTo[i].garment]
    IN  SelectSeq(ids, LAMBDA id : id # Null)

displayImageUrl ==
    IF Len(outfitHistory) = 0 THEN modelImageUrl
    ELSE IF ~HasLayer(outfitHistory, currentOutfitIndex) THEN modelImageUrl
    ELSE LET currentLayer == LayerAt(outfitHistory, currentOutfitIndex)
             poseInstruction == POSE_INSTRUCTIONS(currentPoseIndex)
         IN  IF PoseHas(currentLayer.poseImages, poseInstruction)
             THEN PoseGet(currentLayer.poseImages, poseInstruction)
             ELSE FirstValue(currentLayer.poseImages)

\* what the top-level render mounts
StartScreenShown == modelImageUrl = NullUrl
MainAppShown == modelImageUrl # NullUrl

\* ------------------------------------------------------------ bookkeeping
NoCall == [id |-> 0, kind |-> "none", idx |-> 0, pose |-> 0, garment |-> Null,
           layerGarment |-> Null, newIndex |-> 0, prevPoseIndex |-> 0, base |-> 0,
           pre |-> <<>>]

\* the event handled last: handler, branch taken, arguments, the call it issued
\* or completed, and whether a completion directly followed its own invocation
Op(name, res, g, n, call) ==
    [op |-> name, res |-> res, g |-> g, n |-> n, call |-> call,
     direct |-> (call.id # 0 /\ lastOp.call.id = call.id /\ lastOp.res = "started")]

NoSnap == [taken |-> FALSE, redone |-> FALSE, linear |-> FALSE, hist |-> <<>>, idx |-> 0]

\* the state a rollback is measured against
Snapshot == [hist |-> outfitHistory, idx |-> currentOutfitIndex,
             pose |-> currentPoseIndex, wardrobe |-> wardrobe]

CanIssue == issued < MaxCalls

\* ------------------------------------------ geminiService: handleApiResponse
MaxCandidates == 2
MaxParts == 1

Undefined == "undefined"
BlockReasons == {Undefined, "SAFETY"}
FinishReasons == {Undefined, "STOP", "SAFETY"}
Texts == {Undefined, " ", "ok"}

\* a part of a candidate's content: text, or inlineData { mimeType, data }
TextPart == [inlineData |-> FALSE, mimeType |-> Undefined, data |-> 0]
ImagePart(d) == [inlineData |-> TRUE, mimeType |-> "image/png", data |-> d]
Parts == {TextPart} \cup {ImagePart(d) : d \in {1, 2}}

SeqsUpTo(S, n) == UNION {[1 .. k -> S] : k \in 0 .. n}

\* candidate.content?.parts (hasParts = FALSE: content or parts undefined)
\* and candidate.finishReason
Candidates ==
    {[hasParts |-> FALSE, parts |-> <<>>, finishReason |-> f] : f \in FinishReasons}
    \cup [hasParts : {TRUE}, parts : SeqsUpTo(Parts, MaxParts), finishReason : FinishReasons]

\* GenerateContentResponse: promptFeedback?.blockReason, candidates (possibly
\* undefined), text
Responses ==
    {[blockReason |-> b, hasCandidates |-> FALSE, candidates |-> <<>>, text |-> t] :
        b \in BlockReasons, t \in Texts}
    \cup [blockReason : BlockReasons, hasCandidates : {TRUE},
          candidates : SeqsUpTo(Candidates, MaxCandidates), text : Texts]

NoResponse == [blockReason |-> Undefined, hasCandidates |-> FALSE, candidates |-> <<>>,
               text |-> Undefined]
NoResult == [kind |-> "none"]

\* String.prototype.trim on the texts drawn
Trim(t) == IF t = " " THEN "" ELSE t

\* JS truthiness of an optional string
Truthy(str) == str # Undefined /\ str # ""

\* candidate.content?.parts?.find(part => part.inlineData): index of the first
\* image part, 0 when there is none
FindImagePart(candidate) ==
    IF \E i \in 1 .. Len(candidate.parts) : candidate.parts[i].inlineData
    THEN CHOOSE i \in 1 .. Len(candidate.parts) :
            /\ candidate.parts[i].inlineData
            /\ \A j \in 1 .. i - 1 : ~candidate.parts[j].inlineData
    ELSE 0

\* `data:${mimeType};base64,${data}`
DataUrl(part) == <<"data:", part.mimeType, ";base64,", part.data>>

Returned(url) == [kind |-> "image", url |-> url]
Thrown(class, detail) == [kind |-> "error", class |-> class, detail |-> detail]

handleApiResponse_stopIsHalted(r) ==
    IF Truthy(r.blockReason)
    THEN Thrown("blocked", r.blockReason)
    ELSE LET cands == r.candidates
             withImage == {i \in 1 .. Len(cands) : FindImagePart(cands[i]) # 0}
         IN  IF withImage # {}
             THEN LET first == CHOOSE i \in withImage : \A j \in withImage : i <= j
                  IN  Returned(DataUrl(cands[first].parts[FindImagePart(cands[first])]))
             ELSE LET finishReason == IF Len(cands) > 0 THEN cands[1].finishReason
                                      ELSE Undefined
                      textFeedback == IF r.text = Undefined THEN Undefined ELSE Trim(r.text)
                  IN  IF Truthy(finishReason)
                      THEN Thrown("halted", finishReason)
                      ELSE Thrown("noImage",
                                  IF Truthy(textFeedback) THEN textFeedback ELSE "")

handleApiResponse(r) ==
    IF Truthy(r.blockReason)
    THEN Thrown("blocked", r.blockReason)
    ELSE LET cands == r.candidates
             withImage == {i \in 1 .. Len(cands) : FindImagePart(cands[i]) # 0}
         IN  IF withImage # {}
             THEN LET first == CHOOSE i \in withImage : \A j \in withImage : i <= j
                  IN  Returned(DataUrl(cands[first].parts[FindImagePart(cands[first])]))
             ELSE LET finishReason == IF Len(cands) > 0 THEN cands[1].finishReason
                                      ELSE Undefined
                      textFeedback == IF r.text = Undefined THEN Undefined ELSE Trim(r.text)
                  IN  IF Truthy(finishReason) /\ finishReason # "STOP"
                      THEN Thrown("halted", finishReason)
                      ELSE Thrown("noImage",
                                  IF Truthy(textFeedback) THEN textFeedback ELSE "")

AppInit ==
    /\ modelImageUrl = NullUrl
    /\ outfitHistory = <<>>
    /\ currentOutfitIndex = 0
    /\ isLoading = FALSE
    /\ loadingMessage = ""
    /\ error = NoError
    /\ currentPoseIndex = 0
    /\ wardrobe = defaultWardrobe
    /\ pending = {}
    /\ issued = 0
    /\ crashed = FALSE
    /\ lastOp = [op |-> "init", res |-> "done", g |-> Null, n |-> 0, call |-> NoCall,
                 direct |-> FALSE]
    /\ linear = FALSE
    /\ undoSnap = NoSnap

Init ==
    /\ AppInit
    /\ response = NoResponse
    /\ apiResult = NoResult

\* ----------------------------------------------------------------- actions
handleModelFinalized(url) ==
    /\ ~crashed
    /\ StartScreenShown
    /\ modelImageUrl' = url
    /\ outfitHistory' = <<[garment |-> Null,
                           poseImages |-> <<[key |-> POSE_INSTRUCTIONS(0), img |-> url]>>]>>
    /\ currentOutfitIndex' = 0
    /\ UNCHANGED <<isLoading, loadingMessage, error, currentPoseIndex, wardrobe>>
    /\ UNCHANGED <<pending, issued, crashed>>
    /\ lastOp' = Op("initialize", "done", Null, url, NoCall)
    /\ linear' = (pending = {})
    /\ UNCHANGED apiVars
    /\ undoSnap' = NoSnap

handleStartOver_keepsWardrobe ==
    /\ ~crashed
    /\ MainAppShown
    /\ modelImageUrl' = NullUrl
    /\ outfitHistory' = <<>>
    /\ currentOutfitIndex' = 0
    /\ isLoading' = FALSE
    /\ loadingMessage' = ""
    /\ error' = NoError
    /\ currentPoseIndex' = 0
    /\ UNCHANGED wardrobe
    /\ UNCHANGED <<pending, issued, crashed>>
    /\ lastOp' = Op("startOver", "done", Null, 0, NoCall)
    /\ linear' = FALSE
    /\ UNCHANGED apiVars
    /\ undoSnap' = NoSnap

handleStartOver ==
    /\ ~crashed
    /\ MainAppShown
    /\ modelImageUrl' = NullUrl
    /\ outfitHistory' = <<>>
    /\ currentOutfitIndex' = 0
    /\ isLoading' = FALSE
    /\ loadingMessage' = ""
    /\ error' = NoError
    /\ currentPoseIndex' = 0
    /\ wardrobe' = defaultWardrobe
    /\ UNCHANGED <<pending, issued, crashed>>
    /\ lastOp' = Op("startOver", "done", Null, 0, NoCall)
    /\ linear' = FALSE
    /\ UNCHANGED apiVars
    /\ undoSnap' = NoSnap

canUndo_allowsZero == currentOutfitIndex >= 0

canUndo == currentOutfitIndex > 0

canRedo_offByOne == currentOutfitIndex < Len(outfitHistory)

canRedo == currentOutfitIndex < Len(outfitHistory) - 1

handleUndo ==
    /\ ~crashed
    /\ currentOutfitIndex' = IF canUndo
                             THEN currentOutfitIndex - 1 ELSE currentOutfitIndex
    /\ UNCHANGED <<modelImageUrl, outfitHistory, isLoading, loadingMessage, error,
                   currentPoseIndex, wardrobe>>
    /\ UNCHANGED <<pending, issued, crashed>>
    /\ lastOp' = Op("undo", IF canUndo THEN "moved" ELSE "ignored",
                    Null, 0, NoCall)
    /\ undoSnap' = [taken |-> TRUE, redone |-> FALSE,
                    linear |-> (linear /\ ~isLoading /\ pending = {}),
                    hist |-> outfitHistory, idx |-> currentOutfitIndex]
    /\ linear' = FALSE
    /\ UNCHANGED apiVars

handleRedo ==
    /\ ~crashed
    /\ currentOutfitIndex' = IF canRedo
                             THEN currentOutfitIndex + 1 ELSE currentOutfitIndex
    /\ UNCHANGED <<modelImageUrl, outfitHistory, isLoading, loadingMessage, error,
                   currentPoseIndex, wardrobe>>
    /\ UNCHANGED <<pending, issued, crashed>>
    /\ lastOp' = Op("redo", IF canRedo THEN "moved" ELSE "ignored", Null, 0, NoCall)
    /\ undoSnap' = IF lastOp.op = "undo" THEN [undoSnap EXCEPT !.redone = TRUE] ELSE NoSnap
    /\ linear' = FALSE
    /\ UNCHANGED apiVars


\* ------------------------------------------------ handleGarmentSelect
GarmentCall(g) ==
    [id |-> issued + 1, kind |-> "tryOn", idx |-> currentOutfitIndex,
     pose |-> currentPoseIndex, garment |-> g, layerGarment |-> Null,
     newIndex |-> 0, prevPoseIndex |-> currentPoseIndex, base |-> displayImageUrl,
     pre |-> Snapshot]

\* !displayImageUrl || isLoading
NotReady_ignoresBusy == displayImageUrl \in {NullUrl, UndefinedUrl}

NotReady_ignoresNoImage == isLoading

NotReady == displayImageUrl \in {NullUrl, UndefinedUrl} \/ isLoading

NextLayerIs_currentLayer(g) ==
    /\ HasLayer(outfitHistory, currentOutfitIndex)
    /\ LayerAt(outfitHistory, currentOutfitIndex).garment = g

\* nextLayer && nextLayer.garment?.id === garmentInfo.id
NextLayerIs(g) ==
    /\ HasLayer(outfitHistory, currentOutfitIndex + 1)
    /\ LayerAt(outfitHistory, currentOutfitIndex + 1).garment = g

handleGarmentSelect(g) ==
    /\ ~crashed
    /\ IF NotReady
       THEN /\ UNCHANGED appVars
            /\ UNCHANGED <<pending, issued>>
            /\ lastOp' = Op("garment", "ignored", g, 0, NoCall)
       ELSE IF NextLayerIs(g)
       THEN /\ currentOutfitIndex' = currentOutfitIndex + 1
            /\ currentPoseIndex' = 0
            /\ UNCHANGED <<modelImageUrl, outfitHistory, isLoading, loadingMessage,
                           error, wardrobe>>
            /\ UNCHANGED <<pending, issued>>
            /\ lastOp' = Op("garment", "reuse", g, 0, NoCall)
       ELSE /\ CanIssue
            /\ error' = NoError
            /\ isLoading' = TRUE
            /\ loadingMessage' = "Applying " \o g
            /\ pending' = pending \cup {GarmentCall(g)}
            /\ issued' = issued + 1
            /\ UNCHANGED <<modelImageUrl, outfitHistory, currentOutfitIndex,
                           currentPoseIndex, wardrobe>>
            /\ lastOp' = Op("garment", "started", g, 0, GarmentCall(g))
    /\ linear' = (linear /\ lastOp'.res = "started")
    /\ UNCHANGED apiVars
    /\ undoSnap' = NoSnap
    /\ UNCHANGED crashed

AddToWardrobe_noDedup(w, g) == Append(w, g)

\* the setWardrobe updater: prev.find(item => item.id === garmentInfo.id) ? prev : [...prev, garmentInfo]
AddToWardrobe(w, g) ==
    IF \E i \in 1 .. Len(w) : w[i] = g THEN w ELSE Append(w, g)

\* generateVirtualTryOnImage resolved with image c.id
GarmentResolve(c) ==
    /\ ~crashed
    /\ c \in pending /\ c.kind = "tryOn"
    /\ LET newLayer == [garment |-> c.garment,
                        poseImages |-> <<[key |-> POSE_INSTRUCTIONS(c.pose), img |-> c.id]>>]
       IN  outfitHistory' = Append(Slice(outfitHistory, c.idx + 1), newLayer)
    /\ currentOutfitIndex' = currentOutfitIndex + 1
    /\ wardrobe' = AddToWardrobe(wardrobe, c.garment)
    /\ isLoading' = FALSE
    /\ loadingMessage' = ""
    /\ UNCHANGED <<modelImageUrl, error, currentPoseIndex>>
    /\ pending' = pending \ {c}
    /\ UNCHANGED <<issued, crashed>>
    /\ lastOp' = Op("resolve", "tryOn", c.garment, 0, c)
    /\ linear' = (linear /\ lastOp'.direct)
    /\ UNCHANGED apiVars
    /\ undoSnap' = NoSnap

\* generateVirtualTryOnImage rejected
GarmentReject(c) ==
    /\ ~crashed
    /\ c \in pending /\ c.kind = "tryOn"
    /\ error' = ApplyError
    /\ isLoading' = FALSE
    /\ loadingMessage' = ""
    /\ UNCHANGED <<modelImageUrl, outfitHistory, currentOutfitIndex, currentPoseIndex,
                   wardrobe>>
    /\ pending' = pending \ {c}
    /\ UNCHANGED <<issued, crashed>>
    /\ lastOp' = Op("reject", "tryOn", c.garment, 0, c)
    /\ linear' = FALSE
    /\ UNCHANGED apiVars
    /\ undoSnap' = NoSnap

\* --------------------------------------------------- handlePoseSelect
PoseCall(newIndex) ==
    [id |-> issued + 1, kind |-> "pose", idx |-> currentOutfitIndex,
     pose |-> currentPoseIndex, garment |-> Null, layerGarment |-> Null,
     newIndex |-> newIndex, prevPoseIndex |-> currentPoseIndex,
     base |-> FirstValue(LayerAt(outfitHistory, currentOutfitIndex).poseImages),
     pre |-> Snapshot]

handlePoseSelect_cachedSetsBusy(newIndex) ==
    /\ ~crashed
    /\ IF isLoading \/ Len(outfitHistory) = 0 \/ newIndex = currentPoseIndex
       THEN /\ UNCHANGED appVars
            /\ UNCHANGED <<pending, issued>>
            /\ lastOp' = Op("pose", "ignored", Null, newIndex, NoCall)
       ELSE IF ~HasLayer(outfitHistory, currentOutfitIndex)
       \* currentLayer is undefined: reading currentLayer.poseImages throws
       THEN /\ UNCHANGED appVars
            /\ UNCHANGED <<pending, issued>>
            /\ lastOp' = Op("pose", "threw", Null, newIndex, NoCall)
       ELSE IF PoseHas(LayerAt(outfitHistory, currentOutfitIndex).poseImages,
                       POSE_INSTRUCTIONS(newIndex))
       THEN /\ currentPoseIndex' = newIndex
            /\ error' = NoError
            /\ isLoading' = TRUE
            /\ loadingMessage' = "Changing pose..."
            /\ UNCHANGED <<modelImageUrl, outfitHistory, currentOutfitIndex, wardrobe>>
            /\ UNCHANGED <<pending, issued>>
            /\ lastOp' = Op("pose", "switched", Null, newIndex, NoCall)
       ELSE IF FirstValue(LayerAt(outfitHistory, currentOutfitIndex).poseImages) = UndefinedUrl
       THEN /\ UNCHANGED appVars
            /\ UNCHANGED <<pending, issued>>
            /\ lastOp' = Op("pose", "ignored", Null, newIndex, NoCall)
       ELSE /\ CanIssue
            /\ error' = NoError
            /\ isLoading' = TRUE
            /\ loadingMessage' = "Changing pose..."
            /\ currentPoseIndex' = newIndex
            /\ pending' = pending \cup {PoseCall(newIndex)}
            /\ issued' = issued + 1
            /\ UNCHANGED <<modelImageUrl, outfitHistory, currentOutfitIndex, wardrobe>>
            /\ lastOp' = Op("pose", "started", Null, newIndex, PoseCall(newIndex))
    /\ linear' = FALSE
    /\ UNCHANGED apiVars
    /\ undoSnap' = NoSnap
    /\ UNCHANGED crashed

handlePoseSelect(newIndex) ==
    /\ ~crashed
    /\ IF isLoading \/ Len(outfitHistory) = 0 \/ newIndex = currentPoseIndex
       THEN /\ UNCHANGED appVars
            /\ UNCHANGED <<pending, issued>>
            /\ lastOp' = Op("pose", "ignored", Null, newIndex, NoCall)
       ELSE IF ~HasLayer(outfitHistory, currentOutfitIndex)
       \* currentLayer is undefined: reading currentLayer.poseImages throws
       THEN /\ UNCHANGED appVars
            /\ UNCHANGED <<pending, issued>>
            /\ lastOp' = Op("pose", "threw", Null, newIndex, NoCall)
       ELSE IF PoseHas(LayerAt(outfitHistory, currentOutfitIndex).poseImages,
                       POSE_INSTRUCTIONS(newIndex))
       THEN /\ currentPoseIndex' = newIndex
            /\ UNCHANGED <<modelImageUrl, outfitHistory, currentOutfitIndex, isLoading,
                           loadingMessage, error, wardrobe>>
            /\ UNCHANGED <<pending, issued>>
            /\ lastOp' = Op("pose", "switched", Null, newIndex, NoCall)
       ELSE IF FirstValue(LayerAt(outfitHistory, currentOutfitIndex).poseImages) = UndefinedUrl
       THEN /\ UNCHANGED appVars
            /\ UNCHANGED <<pending, issued>>
            /\ lastOp' = Op("pose", "ignored", Null, newIndex, NoCall)
       ELSE /\ CanIssue
            /\ error' = NoError
            /\ isLoading' = TRUE
            /\ loadingMessage' = "Changing pose..."
            /\ currentPoseIndex' = newIndex
            /\ pending' = pending \cup {PoseCall(newIndex)}
            /\ issued' = issued + 1
            /\ UNCHANGED <<modelImageUrl, outfitHistory, currentOutfitIndex, wardrobe>>
            /\ lastOp' = Op("pose", "started", Null, newIndex, PoseCall(newIndex))
    /\ linear' = FALSE
    /\ UNCHANGED apiVars
    /\ undoSnap' = NoSnap
    /\ UNCHANGED crashed

\* the updater of handlePoseSelect / handleRegenerate: newHistory[idx].poseImages[key] = img
StorePose(h, idx, key, img) ==
    [h EXCEPT ![idx + 1].poseImages = PoseSet(@, key, img)]

PoseResolve_rollsBack(c) ==
    /\ ~crashed
    /\ c \in pending /\ c.kind = "pose"
    /\ IF HasLayer(outfitHistory, c.idx)
       THEN /\ outfitHistory' = StorePose(outfitHistory, c.idx,
                                          POSE_INSTRUCTIONS(c.newIndex), c.id)
            /\ currentPoseIndex' = c.prevPoseIndex
            /\ isLoading' = FALSE
            /\ loadingMessage' = ""
            /\ UNCHANGED <<modelImageUrl, currentOutfitIndex, error, wardrobe>>
            /\ UNCHANGED crashed
            /\ lastOp' = Op("resolve", "pose", Null, c.newIndex, c)
       ELSE /\ UNCHANGED appVars
            /\ crashed' = TRUE
            /\ lastOp' = Op("resolve", "crash", Null, c.newIndex, c)
    /\ pending' = pending \ {c}
    /\ UNCHANGED issued
    /\ linear' = FALSE
    /\ UNCHANGED apiVars
    /\ undoSnap' = NoSnap

\* generatePoseVariation resolved with image c.id
PoseResolve(c) ==
    /\ ~crashed
    /\ c \in pending /\ c.kind = "pose"
    /\ IF HasLayer(outfitHistory, c.idx)
       THEN /\ outfitHistory' = StorePose(outfitHistory, c.idx,
                                          POSE_INSTRUCTIONS(c.newIndex), c.id)
            /\ isLoading' = FALSE
            /\ loadingMessage' = ""
            /\ UNCHANGED <<modelImageUrl, currentOutfitIndex, error, currentPoseIndex,
                           wardrobe>>
            /\ UNCHANGED crashed
            /\ lastOp' = Op("resolve", "pose", Null, c.newIndex, c)
       \* updatedLayer is undefined: the updater throws while React renders
       ELSE /\ UNCHANGED appVars
            /\ crashed' = TRUE
            /\ lastOp' = Op("resolve", "crash", Null, c.newIndex, c)
    /\ pending' = pending \ {c}
    /\ UNCHANGED issued
    /\ linear' = FALSE
    /\ UNCHANGED apiVars
    /\ undoSnap' = NoSnap

PoseReject_noRollback(c) ==
    /\ ~crashed
    /\ c \in pending /\ c.kind = "pose"
    /\ error' = PoseError
    /\ isLoading' = FALSE
    /\ loadingMessage' = ""
    /\ UNCHANGED <<modelImageUrl, outfitHistory, currentOutfitIndex, currentPoseIndex,
                   wardrobe>>
    /\ pending' = pending \ {c}
    /\ UNCHANGED <<issued, crashed>>
    /\ lastOp' = Op("reject", "pose", Null, c.newIndex, c)
    /\ linear' = FALSE
    /\ UNCHANGED apiVars
    /\ undoSnap' = NoSnap

\* generatePoseVariation rejected
PoseReject(c) ==
    /\ ~crashed
    /\ c \in pending /\ c.kind = "pose"
    /\ error' = PoseError
    /\ currentPoseIndex' = c.prevPoseIndex
    /\ isLoading' = FALSE
    /\ loadingMessage' = ""
    /\ UNCHANGED <<modelImageUrl, outfitHistory, currentOutfitIndex, wardrobe>>
    /\ pending' = pending \ {c}
    /\ UNCHANGED <<issued, crashed>>
    /\ lastOp' = Op("reject", "pose", Null, c.newIndex, c)
    /\ linear' = FALSE
    /\ UNCHANGED apiVars
    /\ undoSnap' = NoSnap

\* ---------------------------------------------- handleImageAdjustment
\* garment of the layer the closure's outfitHistory holds at its currentOutfitIndex
CapturedGarment ==
    IF HasLayer(outfitHistory, currentOutfitIndex)
    THEN LayerAt(outfitHistory, currentOutfitIndex).garment
    ELSE "undefined"

AdjustCall ==
    [id |-> issued + 1, kind |-> "adjust", idx |-> currentOutfitIndex,
     pose |-> currentPoseIndex, garment |-> Null, layerGarment |-> CapturedGarment,
     newIndex |-> 0, prevPoseIndex |-> currentPoseIndex, base |-> displayImageUrl,
     pre |-> Snapshot]

handleImageAdjustment ==
    /\ ~crashed
    /\ IF NotReady
       THEN /\ UNCHANGED appVars
            /\ UNCHANGED <<pending, issued>>
            /\ lastOp' = Op("adjust", "ignored", Null, 0, NoCall)
       ELSE /\ CanIssue
            /\ error' = NoError
            /\ isLoading' = TRUE
            /\ loadingMessage' = "Adjusting image..."
            /\ pending' = pending \cup {AdjustCall}
            /\ issued' = issued + 1
            /\ UNCHANGED <<modelImageUrl, outfitHistory, currentOutfitIndex,
                           currentPoseIndex, wardrobe>>
            /\ lastOp' = Op("adjust", "started", Null, 0, AdjustCall)
    /\ linear' = (linear /\ lastOp'.res = "started")
    /\ UNCHANGED apiVars
    /\ undoSnap' = NoSnap
    /\ UNCHANGED crashed

\* adjustImage resolved with image c.id
AdjustResolve(c) ==
    /\ ~crashed
    /\ c \in pending /\ c.kind = "adjust"
    /\ IF c.layerGarment # "undefined"
       THEN /\ LET newLayer == [garment |-> c.layerGarment,
                                poseImages |-> <<[key |-> POSE_INSTRUCTIONS(c.pose),
                                                  img |-> c.id]>>]
               IN  outfitHistory' = Append(Slice(outfitHistory, c.idx + 1), newLayer)
            /\ currentOutfitIndex' = currentOutfitIndex + 1
            /\ UNCHANGED error
            /\ lastOp' = Op("resolve", "adjust", Null, 0, c)
       \* currentLayer is undefined: currentLayer.garment throws inside the try
       ELSE /\ error' = AdjustError
            /\ UNCHANGED <<outfitHistory, currentOutfitIndex>>
            /\ lastOp' = Op("resolve", "caught", Null, 0, c)
    /\ isLoading' = FALSE
    /\ loadingMessage' = ""
    /\ UNCHANGED <<modelImageUrl, currentPoseIndex, wardrobe>>
    /\ pending' = pending \ {c}
    /\ UNCHANGED <<issued, crashed>>
    /\ linear' = (linear /\ lastOp'.direct /\ lastOp'.res = "adjust")
    /\ UNCHANGED apiVars
    /\ undoSnap' = NoSnap

\* adjustImage rejected
AdjustReject_advancesIndex(c) ==
    /\ ~crashed
    /\ c \in pending /\ c.kind = "adjust"
    /\ error' = AdjustError
    /\ isLoading' = FALSE
    /\ loadingMessage' = ""
    /\ currentOutfitIndex' = currentOutfitIndex + 1
    /\ UNCHANGED <<modelImageUrl, outfitHistory, currentPoseIndex, wardrobe>>
    /\ pending' = pending \ {c}
    /\ UNCHANGED <<issued, crashed>>
    /\ lastOp' = Op("reject", "adjust", Null, 0, c)
    /\ linear' = FALSE
    /\ UNCHANGED apiVars
    /\ undoSnap' = NoSnap

AdjustReject(c) ==
    /\ ~crashed
    /\ c \in pending /\ c.kind = "adjust"
    /\ error' = AdjustError
    /\ isLoading' = FALSE
    /\ loadingMessage' = ""
    /\ UNCHANGED <<modelImageUrl, outfitHistory, currentOutfitIndex, currentPoseIndex,
                   wardrobe>>
    /\ pending' = pending \ {c}
    /\ UNCHANGED <<issued, crashed>>
    /\ lastOp' = Op("reject", "adjust", Null, 0, c)
    /\ linear' = FALSE
    /\ UNCHANGED apiVars
    /\ undoSnap' = NoSnap

\* --------------------------------------------------- handleRegenerate
RegenCall ==
    [id |-> issued + 1, kind |-> "regen", idx |-> currentOutfitIndex,
     pose |-> currentPoseIndex, garment |-> Null, layerGarment |-> Null,
     newIndex |-> currentPoseIndex, prevPoseIndex |-> currentPoseIndex,
     base |-> FirstValue(LayerAt(outfitHistory, currentOutfitIndex).poseImages),
     pre |-> Snapshot]

handleRegenerate ==
    /\ ~crashed
    /\ IF isLoading \/ Len(outfitHistory) = 0
       THEN /\ UNCHANGED appVars
            /\ UNCHANGED <<pending, issued>>
            /\ lastOp' = Op("regen", "ignored", Null, 0, NoCall)
       ELSE IF ~HasLayer(outfitHistory, currentOutfitIndex)
       THEN /\ UNCHANGED appVars
            /\ UNCHANGED <<pending, issued>>
            /\ lastOp' = Op("regen", "ignored", Null, 0, NoCall)
       ELSE IF FirstValue(LayerAt(outfitHistory, currentOutfitIndex).poseImages) = UndefinedUrl
       THEN /\ error' = "No base image available to regenerate from."
            /\ UNCHANGED <<modelImageUrl, outfitHistory, currentOutfitIndex, isLoading,
                           loadingMessage, currentPoseIndex, wardrobe>>
            /\ UNCHANGED <<pending, issued>>
            /\ lastOp' = Op("regen", "nobase", Null, 0, NoCall)
       ELSE /\ CanIssue
            /\ error' = NoError
            /\ isLoading' = TRUE
            /\ loadingMessage' = "Regenerating portrait..."
            /\ pending' = pending \cup {RegenCall}
            /\ issued' = issued + 1
            /\ UNCHANGED <<modelImageUrl, outfitHistory, currentOutfitIndex,
                           currentPoseIndex, wardrobe>>
            /\ lastOp' = Op("regen", "started", Null, 0, RegenCall)
    /\ linear' = FALSE
    /\ UNCHANGED apiVars
    /\ undoSnap' = NoSnap
    /\ UNCHANGED crashed

\* generatePoseVariation (regenerate) resolved with image c.id
RegenResolve(c) ==
    /\ ~crashed
    /\ c \in pending /\ c.kind = "regen"
    /\ IF HasLayer(outfitHistory, c.idx)
       THEN /\ outfitHistory' = StorePose(outfitHistory, c.idx,
                                          POSE_INSTRUCTIONS(c.pose), c.id)
            /\ isLoading' = FALSE
            /\ loadingMessage' = ""
            /\ UNCHANGED <<modelImageUrl, currentOutfitIndex, error, currentPoseIndex,
                           wardrobe>>
            /\ UNCHANGED crashed
            /\ lastOp' = Op("resolve", "regen", Null, 0, c)
       \* updatedLayer is undefined: the updater throws while React renders
       ELSE /\ UNCHANGED appVars
            /\ crashed' = TRUE
            /\ lastOp' = Op("resolve", "crash", Null, 0, c)
    /\ pending' = pending \ {c}
    /\ UNCHANGED issued
    /\ linear' = FALSE
    /\ UNCHANGED apiVars
    /\ undoSnap' = NoSnap

\* generatePoseVariation (regenerate) rejected
RegenReject(c) ==
    /\ ~crashed
    /\ c \in pending /\ c.kind = "regen"
    /\ error' = RegenError
    /\ isLoading' = FALSE
    /\ loadingMessage' = ""
    /\ UNCHANGED <<modelImageUrl, outfitHistory, currentOutfitIndex, currentPoseIndex,
                   wardrobe>>
    /\ pending' = pending \ {c}
    /\ UNCHANGED <<issued, crashed>>
    /\ lastOp' = Op("reject", "regen", Null, 0, c)
    /\ linear' = FALSE
    /\ UNCHANGED apiVars
    /\ undoSnap' = NoSnap

\* the handlers the main-app view wires to its controls (rendered while a base image exists)
Next ==
    \/ \E url \in BaseImages : handleModelFinalized(url)
    \/ handleStartOver
    \/ MainAppShown /\ handleUndo
    \/ MainAppShown /\ handleRedo
    \/ \E g \in GarmentIds : MainAppShown /\ handleGarmentSelect(g)
    \/ \E c \in pending : GarmentResolve(c)
    \/ \E c \in pending : GarmentReject(c)
    \/ \E n \in PoseIndices : MainAppShown /\ handlePoseSelect(n)
    \/ \E c \in pending : PoseResolve(c)
    \/ \E c \in pending : PoseReject(c)
    \/ MainAppShown /\ handleImageAdjustment
    \/ \E c \in pending : AdjustResolve(c)
    \/ \E c \in pending : AdjustReject(c)
    \/ MainAppShown /\ handleRegenerate
    \/ \E c \in pending : RegenResolve(c)
    \/ \E c \in pending : RegenReject(c)

Spec == Init /\ [][Next]_vars

\* ---------------------------------------- handleApiResponse on any response
ApiInit ==
    /\ AppInit
    /\ response \in Responses
    /\ apiResult = NoResult

\* return handleApiResponse(response) at the end of a generate* call
ApplyHandleApiResponse ==
    /\ apiResult = NoResult
    /\ apiResult' = handleApiResponse(response)
    /\ UNCHANGED response
    /\ UNCHANGED <<appVars, pending, issued, crashed, lastOp, linear, undoSnap>>

ApiNext == ApplyHandleApiResponse

ApiSpec == ApiInit /\ [][ApiNext]_vars

\* ------------------------- the handlers invoked while no base image exists
\* the six handlers called although the main-app view is not rendered: their
\* own guards are all that stands between the call and the state
NoBaseInvoke ==
    /\ StartScreenShown
    /\ Len(outfitHistory) = 0
    /\ \/ handleUndo
       \/ handleRedo
       \/ \E g \in GarmentIds : handleGarmentSelect(g)
       \/ \E n \in PoseIndices : handlePoseSelect(n)
       \/ handleImageAdjustment
       \/ handleRegenerate

DirectNext == Next \/ NoBaseInvoke

DirectSpec == Init /\ [][DirectNext]_vars

\* ================================================================ claims
LastCall == lastOp.call

\* C1: whenever the history is non-empty, 0 <= currentOutfitIndex < length(outfitHistory),
\* in every reachable state (undo, redo and start-over may be handled while a
\* generation call is in flight).
C1_IndexValid ==
    Len(outfitHistory) > 0 => HasLayer(outfitHistory, currentOutfitIndex)

\* C2: after initialize and a run of successfully completed applyGarment /
\* applyAdjustment operations (each completed before the next event), undo
\* immediately followed by redo restores (outfitHistory, currentOutfitIndex).
C2_UndoRedoRoundTrip ==
    (undoSnap.redone /\ undoSnap.linear) =>
        /\ outfitHistory = undoSnap.hist
        /\ currentOutfitIndex = undoSnap.idx

C2_Witness ==
    /\ undoSnap.redone /\ undoSnap.linear
    /\ lastOp.op = "redo" /\ lastOp.res = "moved"
    /\ Len(outfitHistory) >= 3

\* C3: a successful applyAdjustment, or applyGarment of a garment other than the
\* one of layer k+1, invoked idle at index k < N-1 of a history of length N and
\* completed with no event in between, leaves a history of length k+2: layers
\* 0..k as before, the new layer at k+1, currentOutfitIndex = k+1.
C3_BranchTruncation ==
    LET pre == LastCall.pre
        k == pre.idx
    IN  (/\ lastOp.op = "resolve" /\ lastOp.res \in {"adjust", "tryOn"}
         /\ lastOp.direct
         /\ k >= 0 /\ k < Len(pre.hist) - 1)
        => /\ Len(outfitHistory) = k + 2
           /\ SubSeq(outfitHistory, 1, k + 1) = SubSeq(pre.hist, 1, k + 1)
           /\ LayerAt(outfitHistory, k + 1).poseImages
                 = <<[key |-> POSE_INSTRUCTIONS(pre.pose), img |-> LastCall.id]>>
           /\ LayerAt(outfitHistory, k + 1).garment
                 = (IF lastOp.res = "tryOn" THEN LastCall.garment
                    ELSE LayerAt(pre.hist, k).garment)
           /\ currentOutfitIndex = k + 1

\* an adjustment from the base layer discards the redo branch
C3_Witness ==
    /\ lastOp.op = "resolve" /\ lastOp.res = "adjust" /\ lastOp.direct
    /\ LastCall.pre.idx = 0 /\ Len(LastCall.pre.hist) = 2
    /\ Len(outfitHistory) = 2
    /\ LayerAt(outfitHistory, 1) # LayerAt(LastCall.pre.hist, 1)

\* C4: applyGarment invoked idle with a displayable image, when the layer at
\* currentOutfitIndex+1 exists and has the selected garment id, increments
\* currentOutfitIndex by one, sets currentPoseIndex to 0, leaves outfitHistory,
\* wardrobe, error and the busy flag unchanged and issues no generation call.
C4_GarmentReuse ==
    [][(/\ lastOp'.op = "garment"
        /\ ~isLoading
        /\ displayImageUrl \notin {NullUrl, UndefinedUrl}
        /\ HasLayer(outfitHistory, currentOutfitIndex + 1)
        /\ LayerAt(outfitHistory, currentOutfitIndex + 1).garment = lastOp'.g)
       => /\ currentOutfitIndex' = currentOutfitIndex + 1
          /\ currentPoseIndex' = 0
          /\ outfitHistory' = outfitHistory
          /\ wardrobe' = wardrobe
          /\ error' = error
          /\ isLoading' = isLoading
          /\ pending' = pending
          /\ issued' = issued]_vars

\* the garment was reused and a layer beyond the reused one is still there
C4_Witness ==
    /\ lastOp.op = "garment" /\ lastOp.res = "reuse"
    /\ Len(outfitHistory) > currentOutfitIndex + 1
    /\ currentPoseIndex = 0

C6_OneInFlight == Cardinality(pending) <= 1

\* C7: applyGarment, selectPose, applyAdjustment or regenerate invoked while
\* isLoading is true changes no state cell and issues no generation call.
C7_BusyRejection ==
    [][(lastOp'.op \in {"garment", "pose", "adjust", "regen"} /\ isLoading)
       => /\ UNCHANGED appVars
          /\ pending' = pending
          /\ issued' = issued]_vars

\* applyGarment rejected while busy although the next layer has that garment
C7_Witness ==
    /\ isLoading
    /\ lastOp.op = "garment" /\ lastOp.res = "ignored"
    /\ HasLayer(outfitHistory, currentOutfitIndex + 1)
    /\ LayerAt(outfitHistory, currentOutfitIndex + 1).garment = lastOp.g

\* C8: immediately after start-over the state cells equal their initial values.
C8_SessionReset ==
    lastOp.op = "startOver" =>
        /\ outfitHistory = <<>>
        /\ modelImageUrl = NullUrl
        /\ currentOutfitIndex = 0
        /\ currentPoseIndex = 0
        /\ error = NoError
        /\ ~isLoading
        /\ loadingMessage = ""
        /\ wardrobe = defaultWardrobe

\* start-over handled while a generation call is in flight
C8_Witness ==
    /\ lastOp.op = "startOver"
    /\ pending # {}

\* C9: modelImageUrl = null exactly when outfitHistory is empty, in every
\* reachable state.
C9_HistoryIffModel ==
    (modelImageUrl = NullUrl) <=> (outfitHistory = <<>>)

\* C10: initialize(baseImage) leaves exactly one layer with no garment and
\* poseImages = {POSE_INSTRUCTIONS[0]: baseImage}, currentOutfitIndex = 0 and
\* currentPoseIndex = 0.
C10_Initialize ==
    lastOp.op = "initialize" =>
        /\ outfitHistory = <<[garment |-> Null,
                              poseImages |-> <<[key |-> POSE_INSTRUCTIONS(0),
                                                img |-> lastOp.n]>>]>>
        /\ currentOutfitIndex = 0
        /\ currentPoseIndex = 0

\* C11: in every reachable state with a non-empty history displayImage is
\* defined: it is the current layer's image for POSE_INSTRUCTIONS[currentPoseIndex]
\* when that key is present and the layer's first-inserted image otherwise.
C11_DisplayDefined ==
    Len(outfitHistory) > 0 =>
        /\ displayImageUrl \notin {NullUrl, UndefinedUrl}
        /\ HasLayer(outfitHistory, currentOutfitIndex)
        /\ LET poseImages == LayerAt(outfitHistory, currentOutfitIndex).poseImages
               key == POSE_INSTRUCTIONS(currentPoseIndex)
           IN  displayImageUrl = (IF PoseHas(poseImages, key)
                                  THEN PoseGet(poseImages, key)
                                  ELSE poseImages[1].img)

NoDuplicates(w) == \A i, j \in 1 .. Len(w) : w[i] = w[j] => i = j

C13_IdempotentPoseSwitch ==
    [][(/\ lastOp'.op = "pose"
        /\ lastOp'.n = lastOp.n
        /\ \/ (lastOp.op = "pose" /\ lastOp.res \in {"switched", "ignored"})
           \/ (lastOp.op = "resolve" /\ lastOp.res = "pose" /\ lastOp.direct))
       => /\ UNCHANGED appVars
          /\ pending' = pending
          /\ issued' = issued
          /\ displayImageUrl' = displayImageUrl]_vars

\* the second selectPose(i) found the generated variant i selected and displayed
C13_Witness ==
    /\ lastOp.op = "pose" /\ lastOp.res = "ignored"
    /\ ~isLoading /\ pending = {}
    /\ lastOp.n = currentPoseIndex /\ currentPoseIndex # 0
    /\ HasLayer(outfitHistory, currentOutfitIndex)
    /\ PoseHas(LayerAt(outfitHistory, currentOutfitIndex).poseImages,
               POSE_INSTRUCTIONS(currentPoseIndex))
    /\ displayImageUrl >= 1

\* C14: undo decrements currentOutfitIndex when it is > 0 and is a no-op at 0;
\* redo increments it when it is < length-1 and is a no-op at the tip; neither
\* changes outfitHistory, currentPoseIndex, wardrobe, error or the busy flag.
C14_UndoRedoFrame ==
    [][/\ (lastOp'.op = "undo" =>
             currentOutfitIndex' = IF currentOutfitIndex > 0
                                   THEN currentOutfitIndex - 1 ELSE currentOutfitIndex)
       /\ (lastOp'.op = "redo" =>
             currentOutfitIndex' = IF currentOutfitIndex < Len(outfitHistory) - 1
                                   THEN currentOutfitIndex + 1 ELSE currentOutfitIndex)
       /\ (lastOp'.op \in {"undo", "redo"} =>
             /\ UNCHANGED <<outfitHistory, currentPoseIndex, wardrobe, error, isLoading>>
             /\ pending' = pending)]_vars

\* undo was handled at index 0 of a history with a redo branch
C14_Witness ==
    /\ lastOp.op = "undo" /\ lastOp.res = "ignored"
    /\ currentOutfitIndex = 0
    /\ Len(outfitHistory) >= 2

\* C16: no operation raises an uncaught exception (no handler and no
\* completion dereferences an undefined layer), and after any failure the
\* system is idle with currentOutfitIndex a valid index of a non-empty history
\* or the history empty.
C16_NoThrow ==
    /\ ~crashed
    /\ lastOp.res \notin {"threw", "crash"}
    /\ ((lastOp.op = "reject" \/ lastOp.res = "caught") =>
          /\ ~isLoading
          /\ (Len(outfitHistory) = 0 \/ HasLayer(outfitHistory, currentOutfitIndex)))

\* C18: when the generation call of a non-reuse applyGarment or of
\* applyAdjustment succeeds, on completion currentOutfitIndex = length - 1 and
\* the layer at currentOutfitIndex is the newly created layer, also when undo
\* or redo was handled while the call was in flight.
C18_NewLayerIsCurrent ==
    (lastOp.op = "resolve" /\ lastOp.res \in {"tryOn", "adjust"}) =>
        /\ currentOutfitIndex = Len(outfitHistory) - 1
        /\ HasLayer(outfitHistory, currentOutfitIndex)
        /\ LayerAt(outfitHistory, currentOutfitIndex).poseImages
              = <<[key |-> POSE_INSTRUCTIONS(LastCall.pose), img |-> LastCall.id]>>

\* C19: when selectPose(q)'s generation call succeeds, on completion the layer
\* at currentOutfitIndex holds the produced image under POSE_INSTRUCTIONS[q],
\* currentPoseIndex = q and displayImage is the produced image; the operation
\* adds or removes no layer and changes no other layer's poseImages, also
\* when undo or redo was handled while the call was in flight.
C19_PoseStoredInCurrentLayer ==
    [][(lastOp'.op = "resolve" /\ lastOp'.call.kind = "pose") =>
        /\ ~crashed'
        /\ HasLayer(outfitHistory', currentOutfitIndex')
        /\ PoseGet(LayerAt(outfitHistory', currentOutfitIndex').poseImages,
                   POSE_INSTRUCTIONS(lastOp'.call.newIndex)) = lastOp'.call.id
        /\ currentPoseIndex' = lastOp'.call.newIndex
        /\ displayImageUrl' = lastOp'.call.id
        /\ currentOutfitIndex' = currentOutfitIndex
        /\ Len(outfitHistory') = Len(outfitHistory)
        /\ \A i \in 1 .. Len(outfitHistory) :
              i # currentOutfitIndex' + 1 => outfitHistory'[i] = outfitHistory[i]]_vars

\* C15: the busy flag is cleared after every generation call, on success and
\* on failure, and while a call issued by applyGarment, selectPose,
\* applyAdjustment or regenerate is in flight isLoading stays true: no state
\* has a call in flight with isLoading = false.
C15_BusyWhileInFlight ==
    /\ pending # {} => isLoading
    /\ (lastOp.op \in {"resolve", "reject"} /\ ~crashed /\ pending = {}) => ~isLoading

\* C20: a generation call that was in flight when start-over was invoked has
\* no effect after the reset: its completion (success or failure) leaves
\* outfitHistory, currentOutfitIndex, currentPoseIndex, wardrobe, error and
\* isLoading as they were just before it. Stated for the completion that
\* directly follows the start-over, when every pending call was in flight at it.
C20_StaleCallNoEffect ==
    [][(lastOp.op = "startOver" /\ lastOp'.op \in {"resolve", "reject"}) =>
        UNCHANGED <<outfitHistory, currentOutfitIndex, currentPoseIndex, wardrobe,
                    error, isLoading>>]_vars

\* a response carries an image part when some part of some candidate is inlineData
HasImagePart(r) ==
    \E i \in 1 .. Len(r.candidates) :
        \E j \in 1 .. Len(r.candidates[i].parts) : r.candidates[i].parts[j].inlineData

FailureClass(r) ==
    IF r.blockReason # Undefined THEN "blocked"
    ELSE IF /\ Len(r.candidates) > 0
            /\ r.candidates[1].finishReason \notin {Undefined, "STOP"} THEN "halted"
    ELSE "noImage"

\* C17: handleApiResponse yields exactly one of {image, failure} for every
\* response; an image only when the response carries an image part; a response
\* with no image part is a failure classified as content-blocked (block reason
\* present), generation-halted (first candidate's finish reason present and
\* not STOP) or no-image-returned (otherwise).
C17_ResponseClassification ==
    apiResult.kind # "none" =>
        /\ apiResult.kind \in {"image", "error"}
        /\ apiResult.kind = "image" => HasImagePart(response)
        /\ apiResult.kind = "error" => apiResult.class \in {"blocked", "halted", "noImage"}
        /\ ~HasImagePart(response) =>
              /\ apiResult.kind = "error"
              /\ apiResult.class = FailureClass(response)

C17_Witness ==
    /\ apiResult.kind = "error"
    /\ apiResult.class = "noImage"
    /\ ~HasImagePart(response)
    /\ Len(response.candidates) = 2
    /\ response.candidates[1].finishReason = "STOP"
    /\ response.candidates[2].finishReason = "SAFETY"

CurrentLayerHasPose(q) ==
    /\ HasLayer(outfitHistory, currentOutfitIndex)
    /\ PoseGet(LayerAt(outfitHistory, currentOutfitIndex).poseImages,
               POSE_INSTRUCTIONS(q)) # UndefinedUrl

\* C22: selectPose(q) with q # currentPoseIndex, when the current layer already
\* has an image for POSE_INSTRUCTIONS[q], sets currentPoseIndex = q
\* synchronously, leaves outfitHistory, currentOutfitIndex, wardrobe, error and
\* isLoading unchanged and issues no generation call; selectPose issues a call
\* only when the target key is absent from the current layer.
C22_CachedPoseSwitch ==
    [][/\ (/\ lastOp'.op = "pose"
           /\ lastOp'.n # currentPoseIndex
           /\ CurrentLayerHasPose(lastOp'.n))
          => /\ currentPoseIndex' = lastOp'.n
             /\ UNCHANGED <<outfitHistory, currentOutfitIndex, wardrobe, error, isLoading>>
             /\ pending' = pending
             /\ issued' = issued
       /\ (lastOp'.op = "pose" /\ pending' # pending)
          => ~CurrentLayerHasPose(lastOp'.n)]_vars

\* C22 as amended: the same for selectPose(q) invoked while isLoading = false;
\* invoked while isLoading = true it is ignored.
C22_CachedPoseSwitchAmended ==
    [][/\ (/\ lastOp'.op = "pose"
           /\ ~isLoading
           /\ lastOp'.n # currentPoseIndex
           /\ CurrentLayerHasPose(lastOp'.n))
          => /\ currentPoseIndex' = lastOp'.n
             /\ UNCHANGED <<outfitHistory, currentOutfitIndex, wardrobe, error, isLoading>>
             /\ pending' = pending
             /\ issued' = issued
       /\ (lastOp'.op = "pose" /\ isLoading) => currentPoseIndex' = currentPoseIndex
       /\ (lastOp'.op = "pose" /\ pending' # pending)
          => ~CurrentLayerHasPose(lastOp'.n)]_vars

\* a synchronous switch back to pose 0 on a layer that holds both images
C22_Witness ==
    /\ lastOp.op = "pose" /\ lastOp.res = "switched"
    /\ lastOp.n = 0
    /\ currentPoseIndex = 0
    /\ ~isLoading
    /\ pending = {}
    /\ CurrentLayerHasPose(1)

\* C23: applyAdjustment on success always appends a new layer: its garment
\* equals the garment of the layer that is current when the result is applied,
\* its poseImages has exactly one entry, keyed by
\* POSE_INSTRUCTIONS[currentPoseIndex]; wardrobe and currentPoseIndex are
\* unchanged.
C23_AdjustAppendsLayer ==
    [][(lastOp'.op = "resolve" /\ lastOp'.call.kind = "adjust") =>
        /\ Len(outfitHistory') > 0
        /\ LET newLayer == outfitHistory'[Len(outfitHistory')]
           IN  /\ newLayer.poseImages = <<[key |-> POSE_INSTRUCTIONS(currentPoseIndex),
                                           img |-> lastOp'.call.id]>>
               /\ HasLayer(outfitHistory, currentOutfitIndex)
               /\ newLayer.garment = LayerAt(outfitHistory, currentOutfitIndex).garment
        /\ UNCHANGED <<wardrobe, currentPoseIndex>>]_vars

\* C24: regenerate on success changes only the entry
\* POSE_INSTRUCTIONS[currentPoseIndex] of the current layer's poseImages, setting
\* it to the produced image: history length, currentOutfitIndex,
\* currentPoseIndex, wardrobe, every other layer and every other pose key of the
\* current layer are unchanged.
C24_RegenerateInPlace ==
    [][(lastOp'.op = "resolve" /\ lastOp'.call.kind = "regen") =>
        /\ ~crashed'
        /\ HasLayer(outfitHistory, currentOutfitIndex)
        /\ outfitHistory' = StorePose(outfitHistory, currentOutfitIndex,
                                      POSE_INSTRUCTIONS(currentPoseIndex), lastOp'.call.id)
        /\ UNCHANGED <<currentOutfitIndex, currentPoseIndex, wardrobe>>]_vars

\* C25: whenever the system is idle (isLoading = false) and the history is
\* non-empty, the current layer's poseImages contains the key
\* POSE_INSTRUCTIONS[currentPoseIndex], so when idle the displayed image is the
\* one stored for the selected pose. Stated for the states whose current layer
\* exists.
C25_IdlePoseKeyPresent ==
    (~isLoading /\ Len(outfitHistory) > 0 /\ HasLayer(outfitHistory, currentOutfitIndex)) =>
        PoseHas(LayerAt(outfitHistory, currentOutfitIndex).poseImages,
                POSE_INSTRUCTIONS(currentPoseIndex))

\* C26: when no base image exists (modelImageUrl = null and outfitHistory
\* empty), invoking applyGarment, applyAdjustment, selectPose, regenerate, undo
\* or redo leaves every state variable unchanged, error and isLoading
\* included, issues no generation call and raises nothing.
C26_NoBaseNoOp ==
    [][(/\ modelImageUrl = NullUrl
        /\ Len(outfitHistory) = 0
        /\ lastOp' # lastOp
        /\ lastOp'.op \in {"garment", "adjust", "pose", "regen", "undo", "redo"})
       => /\ UNCHANGED appVars
          /\ pending' = pending
          /\ issued' = issued
          /\ ~crashed'
          /\ lastOp'.res = "ignored"]_vars

\* regenerate invoked after a start-over that left a call in flight
C26_Witness ==
    /\ modelImageUrl = NullUrl
    /\ Len(outfitHistory) = 0
    /\ lastOp.op = "regen" /\ lastOp.res = "ignored"
    /\ pending # {}
    /\ ~isLoading
    /\ error = NoError

\* garment ids of the first k layers that have a garment, in layer order
RECURSIVE GarmentIdsOfFirst(_)
GarmentIdsOfFirst(k) ==
    IF k = 0 THEN <<>>
    ELSE IF outfitHistory[k].garment = Null THEN GarmentIdsOfFirst(k - 1)
    ELSE Append(GarmentIdsOfFirst(k - 1), outfitHistory[k].garment)

\* C27: in every reachable state every layer of outfitHistory has at least one
\* poseImages entry, and activeGarmentIds is the sequence of garment ids of
\* layers 0..currentOutfitIndex, in layer order, that have a garment: a garment
\* found only beyond currentOutfitIndex is not in it and the base layer
\* contributes no id.
C27_LayersAndActiveGarments ==
    /\ \A i \in 1 .. Len(outfitHistory) : Len(outfitHistory[i].poseImages) >= 1
    /\ LET last == IF currentOutfitIndex + 1 < Len(outfitHistory)
                   THEN currentOutfitIndex + 1 ELSE Len(outfitHistory)
       IN  /\ activeGarmentIds = GarmentIdsOfFirst(last)
           /\ \A j \in 1 .. Len(activeGarmentIds) :
                 \E i \in 1 .. last : outfitHistory[i].garment = activeGarmentIds[j]
           /\ Len(activeGarmentIds)
                 = Cardinality({i \in 1 .. last : outfitHistory[i].garment # Null})

\* after an undo the garment of the redo branch is not active
C27_Witness ==
    /\ Len(outfitHistory) = 3
    /\ currentOutfitIndex = 1
    /\ outfitHistory[1].garment = Null
    /\ outfitHistory[2].garment = "g1"
    /\ outfitHistory[3].garment = "g2"
    /\ activeGarmentIds = <<"g1">>
====
